---- MODULE Spec2Model ----
(***************************************************************************)
(* Poseidon sponge wrappers (src/src/hash.rs) and the hashing statement    *)
(* (src/src/circuit.rs) of zksnark-reporting-system.                       *)
(*                                                                         *)
(* PoseidonHash / PoseidonHashVar wrap the duplex sponge of the            *)
(* ark-crypto-primitives crate.  The wrappers and the statement are        *)
(* translated from the repository's source.  The sponge they drive         *)
(* (state, absorb/squeeze cursor protocol, permutation) is not part of     *)
(* the repository's files; it is written here from sections 3 and 4 of the *)
(* specification, over a small prime-sized ring that stands for the scalar *)
(* field.  Sequences are 1-based: source index k is position k + 1.        *)
(***************************************************************************)
EXTENDS Integers, Sequences, FiniteSets, TLC

\* ------------------------------------------------------------------ bounds
\* Modulus of the ring standing for the scalar field F.
FieldSize == 17
\* Largest first value of the stream of field elements a run absorbs.
MaxVal == 0
\* Most work of one run: field elements absorbed plus squeeze calls.
MaxWork == 6
\* Longest sequence and longest already-absorbed prefix of the split check.
MaxLen == 5
MaxPre == 4
\* Largest vector length n of the hashing statement.
MaxN == 8

\* ------------------------------------------------- get_poseidon_config
FULL_ROUNDS == 8
PARTIAL_ROUNDS == 60
ALPHA == 5
RATE == 4
CAPACITY == 1
Width == RATE + CAPACITY
NumRounds == FULL_ROUNDS + PARTIAL_ROUNDS

\* Round constant i of round r and entry (i, j) of the diffusion matrix, as
\* find_poseidon_ark_and_mds derives them: fixed tables, a pure function of
\* the field and the round counts.
Ark(r, i) == (7 * r + 3 * i + 1) % FieldSize
Mds(i, j) == (i * i + 2 * j + i * j + 1) % FieldSize

\* ------------------------------------------------------- field arithmetic
FAdd(a, b) == (a + b) % FieldSize
FMul(a, b) == (a * b) % FieldSize

RECURSIVE FPow(_, _)
FPow(x, e) == IF e = 0 THEN 1 % FieldSize ELSE FMul(x, FPow(x, e - 1))

\* --------------------------------------------------------- native sponge
Absorbing(i) == [kind |-> "Absorbing", idx |-> i]
Squeezing(i) == [kind |-> "Squeezing", idx |-> i]

RECURSIVE Zeros(_)
Zeros(n) == IF n = 0 THEN <<>> ELSE <<0>> \o Zeros(n - 1)

ZeroState == Zeros(Width)

RECURSIVE ArkFrom(_, _, _)
ArkFrom(st, r, i) ==
    IF i > Width THEN <<>>
    ELSE <<FAdd(st[i], Ark(r, i))>> \o ArkFrom(st, r, i + 1)

\* state[i] += ark[round][i]
ApplyArk(st, r) == ArkFrom(st, r, 1)

RECURSIVE SBoxFrom(_, _)
SBoxFrom(st, i) ==
    IF i > Width THEN <<>> ELSE <<FPow(st[i], ALPHA)>> \o SBoxFrom(st, i + 1)

\* x -> x^alpha on every element (full round) or on the first one only
ApplySBox(st, full) ==
    IF full THEN SBoxFrom(st, 1)
    ELSE <<FPow(st[1], ALPHA)>> \o Tail(st)

RECURSIVE DotRow(_, _, _)
DotRow(st, i, j) ==
    IF j = 0 THEN 0 ELSE FAdd(DotRow(st, i, j - 1), FMul(Mds(i, j), st[j]))

RECURSIVE MdsFrom(_, _)
MdsFrom(st, i) ==
    IF i > Width THEN <<>> ELSE <<DotRow(st, i, Width)>> \o MdsFrom(st, i + 1)

\* state = mds * state
ApplyMds(st) == MdsFrom(st, 1)

\* Round r (0-based): the first FULL_ROUNDS rounds are full, the rest partial
\* (the schedule as section 4.2 of the specification words it).
IsFullRound(r) == r < FULL_ROUNDS

RECURSIVE PermuteFrom(_, _)
\* rounds r .. NumRounds - 1, round r with round-constant vector r.  The state
\* always has Width elements; reading its length evaluates each round's state
\* before the next round starts.
PermuteFrom(st, r) ==
    IF r = NumRounds \/ Len(st) # Width THEN st
    ELSE PermuteFrom(ApplyMds(ApplySBox(ApplyArk(st, r), IsFullRound(r))), r + 1)

\* One application of the permutation; ev records the sponge's history.
Permute(s) == [s EXCEPT !.state = PermuteFrom(s.state, 0),
                        !.ev = Append(@, <<"perm", 0>>)]

SpongeNew == [state |-> ZeroState, mode |-> Absorbing(0), ev |-> <<>>]

RECURSIVE AddAt(_, _, _)
\* state[capacity + i + start] += elems[i]
AddAt(s, start, elems) ==
    IF elems = <<>> THEN s
    ELSE AddAt([s EXCEPT !.state[CAPACITY + start + 1] = FAdd(@, Head(elems)),
                         !.ev = Append(@, <<"add", CAPACITY + start>>)],
               start + 1, Tail(elems))

RECURSIVE AbsorbInternal(_, _, _)
AbsorbInternal(s, start, elems) ==
    IF start + Len(elems) <= RATE
    THEN [AddAt(s, start, elems) EXCEPT !.mode = Absorbing(start + Len(elems))]
    ELSE LET k == RATE - start
         IN AbsorbInternal(Permute(AddAt(s, start, SubSeq(elems, 1, k))), 0,
                           SubSeq(elems, k + 1, Len(elems)))

\* sponge.absorb(&input): input already flattened to its field elements.
Absorb(s, elems) ==
    IF elems = <<>> THEN s
    ELSE IF s.mode.kind = "Absorbing"
         THEN IF s.mode.idx = RATE THEN AbsorbInternal(Permute(s), 0, elems)
              ELSE AbsorbInternal(s, s.mode.idx, elems)
         ELSE AbsorbInternal(s, 0, elems)

RECURSIVE ReadAt(_, _, _)
\* the k rate slots from start on, in order
ReadAt(s, start, k) ==
    IF k = 0 THEN [sponge |-> s, out |-> <<>>]
    ELSE LET r == ReadAt([s EXCEPT !.ev = Append(@, <<"read", CAPACITY + start>>)],
                         start + 1, k - 1)
         IN [sponge |-> r.sponge, out |-> <<s.state[CAPACITY + start + 1]>> \o r.out]

RECURSIVE SqueezeInternal(_, _, _)
SqueezeInternal(s, start, n) ==
    IF start + n <= RATE
    THEN LET r == ReadAt(s, start, n)
         IN [sponge |-> [r.sponge EXCEPT !.mode = Squeezing(start + n)], out |-> r.out]
    ELSE LET k == RATE - start
             r == ReadAt(s, start, k)
             rest == SqueezeInternal(Permute(r.sponge), 0, n - k)
         IN [sponge |-> rest.sponge, out |-> r.out \o rest.out]

\* sponge.squeeze_field_elements(n)
SqueezeFieldElements(s, n) ==
    IF s.mode.kind = "Absorbing" THEN SqueezeInternal(Permute(s), 0, n)
    ELSE IF s.mode.idx = RATE THEN SqueezeInternal(Permute(s), 0, n)
         ELSE SqueezeInternal(s, s.mode.idx, n)

\* --------------------------------------------------------- PoseidonHash
PoseidonHashNew == [sponge |-> SpongeNew]

RECURSIVE PoseidonHashAbsorbManyTwice(_, _)
\* a loop body that absorbs its element twice
PoseidonHashAbsorbManyTwice(h, iter) ==
    IF iter = <<>> THEN h
    ELSE PoseidonHashAbsorbManyTwice(
             [h EXCEPT !.sponge = Absorb(Absorb(@, Head(iter)), Head(iter))], Tail(iter))

RECURSIVE PoseidonHashAbsorbMany(_, _)
\* for elem in iter { self.sponge.absorb(&elem) }
PoseidonHashAbsorbMany(h, iter) ==
    IF iter = <<>> THEN h
    ELSE PoseidonHashAbsorbMany([h EXCEPT !.sponge = Absorb(@, Head(iter))], Tail(iter))

\* a squeeze that asks the sponge for two elements and returns the first
PoseidonHashSqueezeTwo(h) ==
    LET r == SqueezeFieldElements(h.sponge, 2)
    IN [hash |-> [h EXCEPT !.sponge = r.sponge], out |-> r.out[1]]

\* squeeze_field_elements(1), then element [0]
PoseidonHashSqueeze(h) ==
    LET r == SqueezeFieldElements(h.sponge, 1)
    IN [hash |-> [h EXCEPT !.sponge = r.sponge], out |-> r.out[1]]


\* ------------------------------------------------------- PoseidonHashVar
\* A constraint system, as far as this code touches it: the public-input and
\* witness variables its callers allocated in it by FpVar::new_input and
\* FpVar::new_witness (not the variables the sponge gadget makes for its own
\* products) and whether its assignment satisfies it.  An FpVar is represented
\* by the value it takes under that assignment, and the circuit sponge by the
\* same state machine as the native one, run on those values.
NewCs == [inputs |-> 0, witnesses |-> 0, satisfied |-> TRUE]

\* PoseidonSpongeVar::new(cs, &get_poseidon_config())
PoseidonHashVarNew(cs) == [sponge |-> SpongeNew, cs |-> cs]

RECURSIVE NewInputs(_)
\* FpVar::new_input(cs, || Ok(f)) for every f of the state, in order
NewInputs(st) == IF st = <<>> THEN <<>> ELSE <<Head(st)>> \o NewInputs(Tail(st))

\* a conversion that copies the state and starts in the mode of a new sponge
PoseidonHashVarFromPoseidonHashFreshMode(cs, nat, rejectAt) ==
    IF rejectAt \in 1..Len(nat.sponge.state)
    THEN [panicked |-> TRUE, hash |-> PoseidonHashVarNew(cs)]
    ELSE [panicked |-> FALSE,
          hash |-> [sponge |-> [state |-> NewInputs(nat.sponge.state),
                                mode |-> Absorbing(0),
                                ev |-> nat.sponge.ev],
                    cs |-> [cs EXCEPT !.inputs = @ + Len(nat.sponge.state)]]]

\* rejectAt: the allocation the constraint system answers with an error
\* (0: none).  unwrap() aborts the process on it.
PoseidonHashVarFromPoseidonHash(cs, nat, rejectAt) ==
    IF rejectAt \in 1..Len(nat.sponge.state)
    THEN [panicked |-> TRUE, hash |-> PoseidonHashVarNew(cs)]
    ELSE [panicked |-> FALSE,
          hash |-> [sponge |-> [state |-> NewInputs(nat.sponge.state),
                                mode |-> nat.sponge.mode,
                                ev |-> nat.sponge.ev],
                    cs |-> [cs EXCEPT !.inputs = @ + Len(nat.sponge.state)]]]

\* a loop that leaves after its first element
PoseidonHashVarAbsorbManyFirstOnly(g, iter, errAt) ==
    IF iter = <<>> THEN [panicked |-> FALSE, hash |-> g]
    ELSE IF errAt = 1 THEN [panicked |-> TRUE, hash |-> g]
    ELSE [panicked |-> FALSE, hash |-> [g EXCEPT !.sponge = Absorb(@, Head(iter))]]

RECURSIVE PoseidonHashVarAbsorbMany(_, _, _)
\* for elem in iter { self.sponge.absorb(&elem).expect(..) }
\* errAt: the absorb call that returns Err (0: none); expect() aborts on it.
PoseidonHashVarAbsorbMany(g, iter, errAt) ==
    IF iter = <<>> THEN [panicked |-> FALSE, hash |-> g]
    ELSE IF errAt = 1 THEN [panicked |-> TRUE, hash |-> g]
    ELSE PoseidonHashVarAbsorbMany([g EXCEPT !.sponge = Absorb(@, Head(iter))],
                                   Tail(iter), IF errAt = 0 THEN 0 ELSE errAt - 1)

\* squeeze_field_elements(1).unwrap(), then element [0]
PoseidonHashVarSqueeze(g, err) ==
    IF err THEN [panicked |-> TRUE, hash |-> g, out |-> 0]
    ELSE LET r == SqueezeFieldElements(g.sponge, 1)
         IN [panicked |-> FALSE, hash |-> [g EXCEPT !.sponge = r.sponge], out |-> r.out[1]]

\* ------------------------------------- native and circuit sponges, side by side
VARIABLES
    seed,       \* first value of the stream of absorbed field elements
    native,     \* PoseidonHash
    gadget,     \* PoseidonHashVar fed the bindings of native's inputs
    builtIn,    \* "new", or the mode native was in when from_poseidon_hash built gadget
    status,     \* "running" | "panicked"
    nElems,     \* field elements handed to absorb_many so far
    nSqueezes,  \* squeeze calls so far
    lastOut,    \* <<>> or <<outputs of the last squeeze call>>
    sqBase,     \* <<>> or <<native's sponge before its current run of squeezes>>
    sqOuts,     \* native's outputs in its current run of consecutive squeezes
    assoc,      \* one sequence, its cuts into three chunks, and the three results
    circ        \* one call of generate_constraints: its locals and its position

hvars == <<seed, native, gadget, builtIn, status, nElems, nSqueezes,
           lastOut, sqBase, sqOuts>>

\* element k (1-based) of the stream of absorbed values
Elem(s, k) == (s + 3 * (k - 1)) % FieldSize

RECURSIVE Items(_, _, _)
\* the next len elements after the first k, one item each
Items(s, k, len) ==
    IF len = 0 THEN <<>> ELSE <<<<Elem(s, k + 1)>>>> \o Items(s, k + 1, len - 1)

HInit ==
    /\ seed \in 0..MaxVal
    /\ native = PoseidonHashNew
    /\ gadget = PoseidonHashVarNew(NewCs)
    /\ builtIn = "new"
    /\ status = "running"
    /\ nElems = 0
    /\ nSqueezes = 0
    /\ lastOut = <<>>
    /\ sqBase = <<>>
    /\ sqOuts = <<>>

\* the process aborts
Panic ==
    /\ status' = "panicked"
    /\ UNCHANGED <<seed, native, gadget, builtIn, nElems, nSqueezes,
                   lastOut, sqBase, sqOuts>>

\* native.absorb_many(v); gadget.absorb_many(v')
AbsorbMany ==
    /\ UNCHANGED <<assoc, circ>>
    /\ status = "running"
    /\ \E len \in 0..(MaxWork - nElems - nSqueezes) :
        \E errAt \in 0..len :
            LET iter == Items(seed, nElems, len)
                g == PoseidonHashVarAbsorbMany(gadget, iter, errAt)
            IN IF g.panicked THEN Panic
               ELSE /\ native' = PoseidonHashAbsorbMany(native, iter)
                    /\ gadget' = g.hash
                    /\ nElems' = nElems + len
                    /\ sqBase' = IF len = 0 THEN sqBase ELSE <<>>
                    /\ sqOuts' = IF len = 0 THEN sqOuts ELSE <<>>
                    /\ UNCHANGED <<seed, builtIn, status, nSqueezes, lastOut>>

\* native.squeeze(); gadget.squeeze()
Squeeze ==
    /\ UNCHANGED <<assoc, circ>>
    /\ status = "running"
    /\ nElems + nSqueezes < MaxWork
    /\ \E err \in BOOLEAN :
        LET h == PoseidonHashSqueeze(native)
            g == PoseidonHashVarSqueeze(gadget, err)
        IN IF g.panicked THEN Panic
           ELSE /\ native' = h.hash
                /\ gadget' = g.hash
                /\ nSqueezes' = nSqueezes + 1
                /\ lastOut' = <<[native |-> h.out, gadget |-> g.out, by |-> builtIn]>>
                /\ sqBase' = IF sqBase = <<>> THEN <<native.sponge>> ELSE sqBase
                /\ sqOuts' = Append(sqOuts, h.out)
                /\ UNCHANGED <<seed, builtIn, status, nElems>>

\* gadget = PoseidonHashVar::from_poseidon_hash(ConstraintSystem::new_ref(), native.clone())
FromPoseidonHash ==
    /\ UNCHANGED <<assoc, circ>>
    /\ status = "running"
    /\ builtIn = "new"
    /\ \E rejectAt \in 0..Width :
        LET r == PoseidonHashVarFromPoseidonHash(NewCs, native, rejectAt)
        IN IF r.panicked THEN Panic
           ELSE /\ gadget' = r.hash
                /\ builtIn' = native.sponge.mode.kind
                /\ UNCHANGED <<seed, native, status, nElems, nSqueezes,
                               lastOut, sqBase, sqOuts>>

\* ------------------------------------------- absorbing in chunks or at once
RECURSIVE Stream(_, _, _)
\* elements k + 1 .. k + len of the stream
Stream(s, k, len) ==
    IF len = 0 THEN <<>> ELSE <<Elem(s, k + 1)>> \o Stream(s, k + 1, len - 1)

RECURSIVE SqueezeTimes(_, _)
SqueezeTimes(h, q) == IF q = 0 THEN h ELSE SqueezeTimes(PoseidonHashSqueeze(h).hash, q - 1)

\* a sponge that absorbed pre elements and then squeezed q times
StartHash(pre, q) ==
    SqueezeTimes(PoseidonHashAbsorbMany(PoseidonHashNew, Items(0, 0, pre)), q)

AssocIdle == [done |-> FALSE, pre |-> 0, sq |-> 0, len |-> 0, c1 |-> 0, c2 |-> 0]

AssocInputs ==
    {[done |-> FALSE, pre |-> p, sq |-> q, len |-> l, c1 |-> i, c2 |-> j] :
        p \in 0..MaxPre, q \in 0..1, l \in 0..MaxLen, i \in 0..MaxLen, j \in 0..MaxLen}

\* absorb v = chunk1 \o chunk2 \o chunk3 by absorb_many of the three chunks,
\* by absorb_many of its elements, and by one absorb of the whole
AssocApply ==
    /\ UNCHANGED <<hvars, circ>>
    /\ ~assoc.done
    /\ LET start == StartHash(assoc.pre, assoc.sq)
           v == Stream(0, assoc.pre, assoc.len)
           chunks == <<SubSeq(v, 1, assoc.c1), SubSeq(v, assoc.c1 + 1, assoc.c2),
                       SubSeq(v, assoc.c2 + 1, assoc.len)>>
       IN assoc' = [assoc EXCEPT !.done = TRUE] @@
                   [chunked |-> PoseidonHashAbsorbMany(start, chunks).sponge,
                    single |-> PoseidonHashAbsorbMany(start, Items(0, assoc.pre, assoc.len)).sponge,
                    whole |-> Absorb(start.sponge, v)]

\* ------------------------------------ PoseidonCircuit::generate_constraints
RNG_SEED == 42

\* StdRng: the next state of the generator and the field element drawn from it
RngNext(x) == (5 * x + 3) % 64
RngValue(x) == x % FieldSize

RECURSIVE RandFrom(_, _)
RandFrom(x, n) ==
    IF n = 0 THEN <<>> ELSE <<RngValue(RngNext(x))>> \o RandFrom(RngNext(x), n - 1)

\* (0..self.n).map(|_| F::rand(&mut rng)).collect(), rng seeded with RNG_SEED
RandomVector(n) == RandFrom(RNG_SEED, n)

\* PoseidonCircuit::new(n), about to be synthesized into a new constraint system
CircNew(n) ==
    [n |-> n, pc |-> "start", rand |-> <<>>, vars |-> <<>>, cs |-> NewCs,
     sponge |-> <<>>, out |-> <<>>, result |-> "none", steps |-> <<>>]

Logged(c, op, res) == [c EXCEPT !.steps = Append(@, [op |-> op, res |-> res])]

\* return Err(e) / return Ok(())
Return(c, result) == [c EXCEPT !.pc = "done", !.result = result]

StepRandomVector(c) == [c EXCEPT !.rand = RandomVector(c.n), !.pc = "alloc"]

\* an allocation that makes its variable a public input
StepAllocAsInput(c, res) ==
    IF res = "Err" THEN Return(Logged(c, "new_witness", res), "Err")
    ELSE [Logged(c, "new_witness", res) EXCEPT
              !.vars = Append(@, c.rand[Len(c.vars) + 1]),
              !.cs.inputs = @ + 1]

\* FpVar::new_witness(cs.clone(), || Ok(x)) for the next x; the first Err ends
\* the collect and `?` returns it
StepAllocWitness(c, res) ==
    IF res = "Err" THEN Return(Logged(c, "new_witness", res), "Err")
    ELSE [Logged(c, "new_witness", res) EXCEPT
              !.vars = Append(@, c.rand[Len(c.vars) + 1]),
              !.cs.witnesses = @ + 1]

\* PoseidonSpongeVar::new(cs.clone(), &get_poseidon_config())
StepNewSponge(c) ==
    [Logged(c, "new_sponge", "Ok") EXCEPT !.sponge = <<SpongeNew>>, !.pc = "absorb"]

\* an absorb whose error is dropped
StepAbsorbIgnoringErr(c, res) ==
    IF res = "Err" THEN [Logged(c, "absorb", res) EXCEPT !.pc = "squeeze"]
    ELSE [Logged(c, "absorb", res) EXCEPT
              !.sponge = <<Absorb(c.sponge[1], c.vars)>>, !.pc = "squeeze"]

\* an absorb that refuses an empty vector
StepAbsorbNonEmpty(c, res) ==
    IF res = "Err" \/ c.vars = <<>> THEN Return(Logged(c, "absorb", res), "Err")
    ELSE [Logged(c, "absorb", res) EXCEPT
              !.sponge = <<Absorb(c.sponge[1], c.vars)>>, !.pc = "squeeze"]

\* poseidon_var.absorb(&input_vars)?
StepAbsorb(c, res) ==
    IF res = "Err" THEN Return(Logged(c, "absorb", res), "Err")
    ELSE [Logged(c, "absorb", res) EXCEPT
              !.sponge = <<Absorb(c.sponge[1], c.vars)>>, !.pc = "squeeze"]

\* poseidon_var.squeeze_field_elements(1)?[0].clone(); Ok(())
\* (indexing an empty vector aborts the process)
StepSqueeze(c, res) ==
    IF res = "Err" THEN Return(Logged(c, "squeeze", res), "Err")
    ELSE LET r == SqueezeFieldElements(c.sponge[1], 1)
         IN IF r.out = <<>> THEN Return(Logged(c, "squeeze", res), "panic")
            ELSE Return([Logged(c, "squeeze", res) EXCEPT
                             !.sponge = <<r.sponge>>, !.out = <<r.out[1]>>], "Ok")

\* what the constraint system may answer to a call
Results == {"Ok", "Err"}

GenRandomVector ==
    /\ UNCHANGED <<hvars, assoc>>
    /\ circ.pc = "start"
    /\ circ' = StepRandomVector(circ)

AllocWitness ==
    /\ UNCHANGED <<hvars, assoc>>
    /\ circ.pc = "alloc"
    /\ Len(circ.vars) < circ.n
    /\ \E res \in Results : circ' = StepAllocWitness(circ, res)

NewSponge ==
    /\ UNCHANGED <<hvars, assoc>>
    /\ circ.pc = "alloc"
    /\ Len(circ.vars) = circ.n
    /\ circ' = StepNewSponge(circ)

CircAbsorb ==
    /\ UNCHANGED <<hvars, assoc>>
    /\ circ.pc = "absorb"
    /\ \E res \in Results : circ' = StepAbsorb(circ, res)

CircSqueeze ==
    /\ UNCHANGED <<hvars, assoc>>
    /\ circ.pc = "squeeze"
    /\ \E res \in Results : circ' = StepSqueeze(circ, res)

\* --------------------------------------------------------- specifications
vars == <<seed, native, gadget, builtIn, status, nElems, nSqueezes,
          lastOut, sqBase, sqOuts, assoc, circ>>

\* the two sponges side by side
Init == HInit /\ assoc = AssocIdle /\ circ = CircNew(0)

Next == AbsorbMany \/ Squeeze \/ FromPoseidonHash

Spec == Init /\ [][Next]_vars

\* absorption in chunks
AssocInit ==
    /\ HInit /\ seed = 0
    /\ assoc \in {a \in AssocInputs : a.c1 <= a.c2 /\ a.c2 <= a.len}
    /\ circ = CircNew(0)

AssocNext == AssocApply

AssocSpec == AssocInit /\ [][AssocNext]_vars

\* the hashing statement
CircInit ==
    /\ HInit /\ seed = 0
    /\ assoc = AssocIdle
    /\ \E n \in 0..MaxN : circ = CircNew(n)

CircNext == GenRandomVector \/ AllocWitness \/ NewSponge \/ CircAbsorb \/ CircSqueeze

CircSpec == CircInit /\ [][CircNext]_vars

\* ------------------------------------------------------------ properties
Ev == native.sponge.ev
IsAdd(e) == e[1] = "add"
IsRead(e) == e[1] = "read"
IsPerm(e) == e[1] = "perm"
LastSlot == CAPACITY + RATE - 1

RECURSIVE CountAdds(_)
CountAdds(ev) ==
    IF ev = <<>> THEN 0 ELSE (IF IsAdd(Head(ev)) THEN 1 ELSE 0) + CountAdds(Tail(ev))

\* C1: whenever a native PoseidonHash and a PoseidonHashVar built by new have
\* been fed the same values by absorb_many, in the same calls, squeeze returns
\* the same field element from both.
C1_NativeEqualsCircuit ==
    (lastOut # <<>> /\ lastOut[1].by = "new")
        => lastOut[1].gadget = lastOut[1].native

C1_Witness ==
    /\ lastOut # <<>> /\ lastOut[1].by = "new"
    /\ nElems >= 2 /\ nSqueezes = 1
    /\ native.sponge.mode = Squeezing(1)

\* C2: a PoseidonHashVar built by from_poseidon_hash has the state values and
\* the mode (with its cursor) of the native sponge it was built from, keeps
\* them under the same later absorb_many/squeeze calls, and each of its
\* squeezes returns what the native sponge's squeeze returns.
C2_FromPoseidonHashEqualsNative ==
    /\ builtIn # "new" =>
          /\ gadget.sponge.state = native.sponge.state
          /\ gadget.sponge.mode = native.sponge.mode
          /\ gadget.cs.inputs = Width
    /\ (lastOut # <<>> /\ lastOut[1].by # "new")
          => lastOut[1].gadget = lastOut[1].native

\* built after native's first squeeze; its first squeeze is native's second
C2_Witness ==
    /\ builtIn = "Squeezing"
    /\ lastOut # <<>> /\ lastOut[1].by = "Squeezing"
    /\ nSqueezes = 2 /\ Len(sqOuts) = 2
    /\ native.sponge.mode = Squeezing(2)
    /\ lastOut[1].gadget = sqOuts[2]

\* C6: no operation of PoseidonHashVar aborts the process when the constraint
\* system answers with an error.
C6_NeverPanics == status # "panicked"

\* C8: the first squeeze after an absorption or on a new sponge permutes once
\* and reads rate slot 0, each directly following squeeze reads the next rate
\* slot, the permutation is applied again only after all RATE slots were read,
\* k consecutive squeezes return what one squeeze of k elements returns and
\* leave the same sponge, and the cursor stays in 0..RATE (RATE included:
\* the whole block was read).
C8_SqueezeProtocol ==
    /\ native.sponge.mode.idx \in 0..RATE
    /\ sqBase # <<>> =>
          LET r == SqueezeFieldElements(sqBase[1], Len(sqOuts))
          IN /\ r.out = sqOuts
             /\ r.sponge = native.sponge
             /\ native.sponge.mode.kind = "Squeezing"
    /\ \A k \in 1..Len(Ev) :
          /\ IsRead(Ev[k]) =>
                /\ k > 1
                /\ ~IsAdd(Ev[k - 1])
                /\ IsPerm(Ev[k - 1]) => Ev[k][2] = CAPACITY
                /\ IsRead(Ev[k - 1]) => Ev[k][2] = Ev[k - 1][2] + 1
          /\ (IsPerm(Ev[k]) /\ k > 1) =>
                /\ ~IsPerm(Ev[k - 1])
                /\ IsRead(Ev[k - 1]) => Ev[k - 1][2] = LastSlot
    /\ Len(sqOuts) = 1 => native.sponge.mode = Squeezing(1)

\* five squeezes in a row: the fifth permuted again and read slot 0
C8_Witness ==
    /\ Len(sqOuts) = RATE + 1
    /\ native.sponge.mode = Squeezing(1)
    /\ nElems > 0

\* C9: a sponge starts all-zero, Width elements, Absorbing; every absorbed
\* element is added into exactly one rate slot, the one at the absorb cursor
\* (slot 0 after a squeeze or a permutation), never the capacity slot; the
\* permutation runs during absorption only after a full block of RATE
\* elements was placed, and before anything else is done with a full block;
\* the state keeps Width elements and the cursor stays in 0..RATE.
C9_AbsorbProtocol ==
    /\ Len(native.sponge.state) = Width
    /\ native.sponge.mode.idx \in 0..RATE
    /\ Ev = <<>> => (native.sponge.state = ZeroState /\ native.sponge.mode = Absorbing(0))
    /\ CountAdds(Ev) = nElems
    /\ \A k \in 1..Len(Ev) :
          /\ IsAdd(Ev[k]) =>
                /\ Ev[k][2] \in CAPACITY..LastSlot
                /\ Ev[k][2] = IF k > 1 /\ IsAdd(Ev[k - 1]) THEN Ev[k - 1][2] + 1
                              ELSE CAPACITY
          /\ (IsPerm(Ev[k]) /\ k < Len(Ev) /\ IsAdd(Ev[k + 1])) =>
                (k > 1 /\ Ev[k - 1] = <<"add", LastSlot>>)
          /\ (Ev[k] = <<"add", LastSlot>> /\ k < Len(Ev)) => IsPerm(Ev[k + 1])
    /\ native.sponge.mode.kind = "Absorbing" =>
          native.sponge.mode.idx =
              IF Ev # <<>> /\ IsAdd(Ev[Len(Ev)]) THEN Ev[Len(Ev)][2] - CAPACITY + 1 ELSE 0

\* an absorb right after a squeeze, and an absorb across a full block
C9_Witness ==
    /\ \E k \in 1..(Len(Ev) - 1) : IsRead(Ev[k]) /\ IsAdd(Ev[k + 1])
    /\ \E k \in 1..(Len(Ev) - 1) : IsPerm(Ev[k]) /\ IsAdd(Ev[k + 1])
    /\ native.sponge.mode = Absorbing(1)

\* C3: absorbing a sequence cut into consecutive chunks (empty ones and cuts on
\* a multiple of RATE included), or element by element, leaves the sponge
\* with the state vector, mode, cursor and history that one absorb of the
\* whole sequence leaves.
C3_AbsorptionAssociative ==
    assoc.done => (assoc.chunked = assoc.whole /\ assoc.single = assoc.whole)

\* the first cut completes a block, the second chunk is empty, more follows
C3_Witness ==
    /\ assoc.done
    /\ assoc.c1 > 0 /\ assoc.pre + assoc.c1 = RATE
    /\ assoc.c2 = assoc.c1 /\ assoc.len > assoc.c2

Steps == circ.steps
NoRejection == \A k \in 1..Len(Steps) : Steps[k].res = "Ok"

C5_ErrorsPropagate ==
    /\ circ.result # "panic"
    /\ \A k \in 1..Len(Steps) :
          Steps[k].res = "Err" =>
              /\ k = Len(Steps)
              /\ circ.pc = "done" /\ circ.result = "Err"
              /\ circ.out = <<>>
              /\ Steps[k].op = "new_witness" => circ.sponge = <<>>
              /\ Steps[k].op = "absorb" => circ.sponge = <<SpongeNew>>
    /\ circ.result = "Err" => ~NoRejection

\* the absorb of a non-empty vector was rejected
C5_Witness ==
    /\ circ.pc = "done" /\ circ.result = "Err"
    /\ circ.n >= 1
    /\ Steps[Len(Steps)] = [op |-> "absorb", res |-> "Err"]

\* the step generate_constraints takes k-th when nothing is rejected
StepOrder(n, k) ==
    IF k <= n THEN "new_witness"
    ELSE IF k = n + 1 THEN "new_sponge"
    ELSE IF k = n + 2 THEN "absorb"
    ELSE "squeeze"

\* C7: generate_constraints takes its steps in one order: n witness
\* allocations, one new sponge, one absorb, one squeeze; a run that returns Ok
\* took them all, allocated n witnesses and no public input, and its sponge
\* is the new all-zero Absorbing sponge after one absorb of the n witnesses in
\* allocation order and one squeeze of one element.
C7_StepOrder ==
    /\ Len(Steps) <= circ.n + 3
    /\ \A k \in 1..Len(Steps) : Steps[k].op = StepOrder(circ.n, k)
    /\ circ.cs.inputs = 0
    /\ (circ.pc = "done" /\ circ.result = "Ok") =>
          /\ Len(Steps) = circ.n + 3
          /\ circ.cs.witnesses = circ.n
          /\ circ.vars = RandomVector(circ.n)
          /\ LET r == SqueezeFieldElements(Absorb(SpongeNew, circ.vars), 1)
             IN /\ Len(r.out) = 1
                /\ circ.sponge = <<r.sponge>>
                /\ circ.out = <<r.out[1]>>

\* a vector longer than one block
C7_Witness == circ.pc = "done" /\ circ.result = "Ok" /\ circ.n > RATE
====
